---- MODULE Spec2Model ----
(***************************************************************************)
(* A model of tauri-wasm: the invoke request builder (invoke.rs), the      *)
(* event emission builder (event.rs), the serde helpers (serde.rs), the    *)
(* error wrapper (error.rs) and the earlier free-function API (core.rs),   *)
(* running against a host that records every call to                      *)
(* window.__TAURI__.core.invoke and later resolves or rejects it.          *)
(***************************************************************************)
EXTENDS Integers, Sequences, FiniteSets

\* Number of requests (caller tasks) the model follows.
MaxReqs == 2
\* Number of builder steps (with_args / with_options / to) applied to one request.
MaxSteps == 2

Reqs == 1 .. MaxReqs

(***************************************************************************)
(* JavaScript values (wasm_bindgen::JsValue)                               *)
(***************************************************************************)
Undefined == [t |-> "undefined"]
Null == [t |-> "null"]
JsString(s) == [t |-> "string", s |-> s]
JsObject(fields) == [t |-> "object", fields |-> fields]
JsMap(entries) == [t |-> "map", entries |-> entries]
Uint8Array(bytes) == [t |-> "uint8array", bytes |-> bytes]
JsError(msg) == [t |-> "error", msg |-> msg]
EmptyObject == JsObject(<<>>)

\* Result<T, E>
Ok(v) == [ok |-> TRUE, val |-> v]
Err(e) == [ok |-> FALSE, err |-> e]

\* Option<T>::None and the "nothing here" marker of the model's slots
None == [t |-> "none"]

(***************************************************************************)
(* string.rs                                                               *)
(***************************************************************************)
to_string_value(s) == JsString(s)

(***************************************************************************)
(* error.rs                                                                *)
(***************************************************************************)
\* pub struct Error(pub(crate) JsValue)
Error(js) == [raw |-> js]

\* impl From<Error> for JsValue
ErrorIntoJsValue(e) == e.raw

Digits == <<"0", "1", "2", "3", "4", "5", "6", "7", "8", "9">>
RECURSIVE Decimal(_)
\* the decimal form JavaScript gives a non-negative integer
Decimal(n) == IF n < 10 THEN Digits[n + 1] ELSE Decimal(n \div 10) \o Digits[(n % 10) + 1]

RECURSIVE JoinBytes(_, _)
\* Array.prototype.join on the elements from the i-th on: decimal numbers, commas between
JoinBytes(bytes, i) ==
    IF i > Len(bytes) THEN ""
    ELSE IF i = Len(bytes) THEN Decimal(bytes[i])
    ELSE Decimal(bytes[i]) \o "," \o JoinBytes(bytes, i + 1)

\* ext::to_string, the JavaScript String(value) function, imported without
\* `catch`: it returns the text, or the JavaScript exception it throws leaves the
\* caller.  An object whose own toString is not callable (no value here is a
\* function) falls back to the inherited valueOf, which returns the object: TypeError.
ext_to_string(v) ==
    CASE v.t = "undefined" -> [text |-> "undefined"]
      [] v.t = "null" -> [text |-> "null"]
      [] v.t = "string" -> [text |-> v.s]
      [] v.t = "error" -> [text |-> IF v.msg = "" THEN "Error" ELSE "Error: " \o v.msg]
      [] v.t = "uint8array" -> [text |-> JoinBytes(v.bytes, 1)]
      [] v.t = "map" -> [text |-> "[object Map]"]
      [] v.t = "headers" -> [text |-> "[object Headers]"]
      [] v.t = "object" /\ (\E k \in DOMAIN v.fields : v.fields[k][1] = "toString") ->
             [thrown |-> "TypeError"]
      [] OTHER -> [text |-> "[object Object]"]

\* impl fmt::Display for Error: the text written, or the exception of ext::to_string
ErrorDisplay(e) == ext_to_string(e.raw)

(***************************************************************************)
(* serde_wasm_bindgen::to_value on the Rust values the model feeds it      *)
(***************************************************************************)
RustUnit == [t |-> "unit"]
RustStr(s) == [t |-> "str", s |-> s]
RustStruct(fields) == [t |-> "struct", fields |-> fields]
\* a value whose Serialize implementation reports an error
RustUnsupported == [t |-> "unsupported"]

SerdeError == JsError("serde: unsupported value")

\* the i-th character of a name
Char(name, i) == SubSeq(name, i, i)

\* the largest array index of JavaScript, 2^32 - 2
MaxArrayIndex == "4294967294"

\* a and b are canonical decimal forms: a denotes the smaller number
IndexLess(a, b) ==
    \/ Len(a) < Len(b)
    \/ /\ Len(a) = Len(b)
       /\ \E i \in 1 .. Len(a) :
             /\ \A j \in 1 .. (i - 1) : Char(a, j) = Char(b, j)
             /\ \E da, db \in DOMAIN Digits :
                   Digits[da] = Char(a, i) /\ Digits[db] = Char(b, i) /\ da < db

\* the property name is an array index to JavaScript: the canonical decimal form
\* of an integer from 0 to 2^32 - 2
IsArrayIndex(name) ==
    /\ Len(name) >= 1
    /\ \A i \in 1 .. Len(name) : \E d \in DOMAIN Digits : Digits[d] = Char(name, i)
    /\ Len(name) > 1 => Char(name, 1) # "0"
    /\ ~IndexLess(MaxArrayIndex, name)

InsertAt(props, i, e) == SubSeq(props, 1, i - 1) \o <<e>> \o SubSeq(props, i, Len(props))

\* serialize_field on the serializer's target object: the property set obj[key] = val.
\* props is the object's own properties in enumeration order: array indices
\* ascending first, then the other names in the order they were created; a set of
\* an existing name replaces its value where it stands; a set of "__proto__" goes
\* to the setter of Object.prototype and creates no own property.
ObjectSet(props, key, val) ==
    IF key = "__proto__" THEN props
    ELSE IF \E i \in DOMAIN props : props[i][1] = key
    THEN [i \in DOMAIN props |-> IF props[i][1] = key THEN <<key, val>> ELSE props[i]]
    ELSE IF IsArrayIndex(key)
    THEN InsertAt(props,
                  1 + Cardinality({i \in DOMAIN props :
                                      IsArrayIndex(props[i][1]) /\ IndexLess(props[i][1], key)}),
                  <<key, val>>)
    ELSE Append(props, <<key, val>>)

RECURSIVE SerializeFields(_, _, _, _)
\* one serialize_field per pair, stopping at the first error: the for loop of
\* from_record, and what a derived Serialize does for the fields of a struct
SerializeFields(props, fields, i, faults) ==
    IF i > Len(fields) THEN Ok(props)
    ELSE IF i \in faults THEN Err(SerdeError)
    ELSE SerializeFields(ObjectSet(props, fields[i][1], JsString(fields[i][2])), fields, i + 1, faults)

\* the own properties of the object serialize_struct builds for a struct's fields
FieldsToJs(fields) == SerializeFields(<<>>, fields, 1, {}).val

to_value(v) ==
    CASE v.t = "unit" -> Ok(Undefined)
      [] v.t = "str" -> Ok(JsString(v.s))
      [] v.t = "struct" -> Ok(JsObject(FieldsToJs(v.fields)))
      [] OTHER -> Err(SerdeError)

(***************************************************************************)
(* invoke.rs: Options, ToArgs, Invoke                                      *)
(***************************************************************************)
\* mutant: omitted options become an empty headers object
OptionsEmptyObject == [headers |-> EmptyObject]

\* Options::empty
Options_empty == [headers |-> Undefined]

\* ToArgs values: a byte slice, or the Data wrapper returned by args()
Slice(bytes) == [t |-> "slice", bytes |-> bytes]
Data(js) == [t |-> "data", js |-> js]

\* ToArgs::to_args
to_args(a) == IF a.t = "slice" THEN Uint8Array(a.bytes) ELSE a.js

\* api::invoke
api_invoke(cmd) == [cmd |-> to_string_value(cmd), args |-> Undefined, opts |-> Options_empty]

\* mutant: with_args rebuilds the request from the command and the args alone
with_args_drops_opts(self, a) == [cmd |-> self.cmd, args |-> to_args(a), opts |-> Options_empty]

\* Invoke::with_args
with_args(self, a) == [cmd |-> self.cmd, args |-> to_args(a), opts |-> self.opts]

\* mutant: with_options rebuilds the request from the command and the options alone
with_options_drops_args(self, opts) == [cmd |-> self.cmd, args |-> Undefined, opts |-> opts]

\* Invoke::with_options
with_options(self, opts) == [self EXCEPT !.opts = opts]

\* ext::invoke: the call handed to window.__TAURI__.core.invoke
ext_invoke(cmd, args, opts) == [cmd |-> cmd, args |-> args, opts |-> opts]

(***************************************************************************)
(* serde.rs: args, Options::from_map, Options::from_record                 *)
(* The serializer is serde_wasm_bindgen's; "faults" is the set of its      *)
(* steps that report an error: 0 is serialize_struct / serialize_map,      *)
(* i in 1..n is the i-th serialize_field / serialize_entry, n+1 is end.    *)
(***************************************************************************)
\* mutant: an encoding failure is passed on as if it were the encoded value
args_swallow(v) == LET r == to_value(v) IN IF r.ok THEN Ok(Data(r.val)) ELSE Ok(Data(r.err))

\* args
args(v) == LET r == to_value(v) IN IF r.ok THEN Ok(Data(r.val)) ELSE Err(Error(r.err))

\* serialize_entry on the serializer's Map: Map.set(key, val).  A new name is
\* added after the others; a name the Map already holds keeps its place and takes
\* the new value.
MapSet(entries, key, val) ==
    IF \E i \in DOMAIN entries : entries[i][1] = key
    THEN [i \in DOMAIN entries |-> IF entries[i][1] = key THEN <<key, val>> ELSE entries[i]]
    ELSE Append(entries, <<key, val>>)

RECURSIVE SerializeAll(_, _, _, _)
\* the for loop of from_map: one serialize_entry per pair of the map, with the
\* name key.as_ref() gives, stopping at the first error
SerializeAll(acc, fields, i, faults) ==
    IF i > Len(fields) THEN Ok(acc)
    ELSE IF i \in faults THEN Err(SerdeError)
    ELSE SerializeAll(MapSet(acc, fields[i][1], JsString(fields[i][2])), fields, i + 1, faults)

\* Options::from_record
from_record(fields, faults) ==
    IF 0 \in faults THEN Err(Error(SerdeError))
    ELSE LET s == SerializeFields(<<>>, fields, 1, faults) IN
         IF ~s.ok THEN Err(Error(s.err))
         ELSE IF (Len(fields) + 1) \in faults THEN Err(Error(SerdeError))
         ELSE Ok([headers |-> JsObject(s.val)])

\* Options::from_map; iter is the HashMap's iteration sequence
from_map(iter, faults) ==
    IF 0 \in faults THEN Err(Error(SerdeError))
    ELSE LET s == SerializeAll(<<>>, iter, 1, faults) IN
         IF ~s.ok THEN Err(Error(s.err))
         ELSE IF (Len(iter) + 1) \in faults THEN Err(Error(SerdeError))
         ELSE Ok([headers |-> JsMap(s.val)])

(***************************************************************************)
(* event.rs: EventTarget, Emit, invoke_emit                                *)
(***************************************************************************)
EMIT == JsString("plugin:event|emit")
EMIT_TO == JsString("plugin:event|emit_to")

\* enum EventTarget<S>
Any == [v |-> "Any"]
AnyLabel(s) == [v |-> "AnyLabel", s |-> s]
App == [v |-> "App"]
Window(s) == [v |-> "Window", s |-> s]
Webview(s) == [v |-> "Webview", s |-> s]
WebviewWindow(s) == [v |-> "WebviewWindow", s |-> s]

HasLabel(target) == target.v \in {"AnyLabel", "Window", "Webview", "WebviewWindow"}

\* EventTarget::map, with the closure |s| s.to_string_value() that Emit::to passes
EventTarget_map(target) == IF HasLabel(target) THEN [target EXCEPT !.s = to_string_value(target.s)] ELSE target

\* api::emit
api_emit(event, payload) ==
    LET r == to_value(payload) IN
    IF r.ok THEN Ok([event |-> to_string_value(event), payload |-> r.val, target |-> None])
    ELSE Err(Error(r.err))

\* mutant: `to` rebuilds the emission and loses the payload
Emit_to_drops_payload(self, target) ==
    [event |-> self.event, payload |-> Undefined,
     target |-> EventTarget_map(target)]

\* Emit::to
Emit_to(self, target) ==
    [event |-> self.event, payload |-> self.payload,
     target |-> EventTarget_map(target)]

\* ext::eargs (core.js): the args object of an emission, holding its four arguments
eargs(event, payload, k, l) == [t |-> "eargs", event |-> event, payload |-> payload, kind |-> k, label |-> l]

\* mutant: Window and Webview exchange their discriminants
KindLabelSwapped(target) ==
    CASE target = None -> [kind |-> 0, label |-> Undefined]
      [] target.v = "Any" -> [kind |-> 1, label |-> Undefined]
      [] target.v = "AnyLabel" -> [kind |-> 2, label |-> target.s]
      [] target.v = "App" -> [kind |-> 3, label |-> Undefined]
      [] target.v = "Window" -> [kind |-> 5, label |-> target.s]
      [] target.v = "Webview" -> [kind |-> 4, label |-> target.s]
      [] target.v = "WebviewWindow" -> [kind |-> 6, label |-> target.s]

\* the match of invoke_emit: (kind, label)
KindLabel(target) ==
    CASE target = None -> [kind |-> 0, label |-> Undefined]
      [] target.v = "Any" -> [kind |-> 1, label |-> Undefined]
      [] target.v = "AnyLabel" -> [kind |-> 2, label |-> target.s]
      [] target.v = "App" -> [kind |-> 3, label |-> Undefined]
      [] target.v = "Window" -> [kind |-> 4, label |-> target.s]
      [] target.v = "Webview" -> [kind |-> 5, label |-> target.s]
      [] target.v = "WebviewWindow" -> [kind |-> 6, label |-> target.s]

\* mutant: the command is chosen from the label instead of the target's presence
EmitCmdByLabel(target) == IF target = None \/ ~HasLabel(target) THEN EMIT ELSE EMIT_TO

\* the first line of invoke_emit: the reserved command
EmitCmd(target) == IF target = None THEN EMIT ELSE EMIT_TO

\* invoke_emit
invoke_emit(target, event, payload) ==
    LET kl == KindLabel(target) IN
    ext_invoke(EmitCmd(target), eargs(event, payload, kl.kind, kl.label), Options_empty)

(***************************************************************************)
(* core.rs: the free-function API with its three-category Error            *)
(***************************************************************************)
\* enum Error { Invoke, Args, Headers }
CoreError(cat, js) == [cat |-> cat, raw |-> js]

\* a caller's ToArgs / ToHeaders implementation, returning the given Result
Custom(res) == [t |-> "custom", res |-> res]

\* ToArgs::to_args of core.rs
core_to_args(a) == IF a.t = "slice" THEN Ok(Uint8Array(a.bytes)) ELSE a.res

\* mutant: a headers failure is reported in the args category
core_to_options_as_args(h) ==
    IF h.res.ok THEN Ok([headers |-> h.res.val]) ELSE Err(CoreError("Args", h.res.err))

\* ToHeaders::to_options
core_to_options(h) ==
    IF h.res.ok THEN Ok([headers |-> h.res.val]) ELSE Err(CoreError("Headers", h.res.err))

\* a web_sys::Headers object
WebHeaders(entries) == [t |-> "headers", entries |-> entries]

\* IntoHeaders::into_headers: of web_sys::Headers (headers.rs), or a caller's
\* implementation returning the given Result
into_headers(h) == IF h.t = "headers" THEN Ok(h) ELSE h.res

\* IntoHeaders::into_options
into_options(h) ==
    LET r == into_headers(h) IN IF r.ok THEN Ok([headers |-> r.val]) ELSE Err(r.err)

\* core::invoke up to its call of ext::invoke
core_invoke(cmd) == ext_invoke(to_string_value(cmd), Null, None)

\* core::invoke_with_args up to its call of ext::invoke
core_invoke_with_args(cmd, a) ==
    LET r == core_to_args(a) IN
    IF r.ok THEN Ok(ext_invoke(to_string_value(cmd), r.val, None))
    ELSE Err(CoreError("Args", r.err))

\* core::invoke_with_options up to its call of ext::invoke
core_invoke_with_options(cmd, a, opts) ==
    LET r == core_to_args(a) IN
    IF r.ok THEN Ok(ext_invoke(to_string_value(cmd), r.val, opts))
    ELSE Err(CoreError("Args", r.err))

(***************************************************************************)
(* Inputs                                                                  *)
(***************************************************************************)
Cmds == {"connect", "login"}
Events == {"file-selected", "test-event"}
Labels == {"main", "editor"}
ArgValues == {RustUnit, RustStruct(<<<<"name", "anon">>, <<"pass", "x">>>>), RustUnsupported}
Payloads == {RustStr("/tmp/a"), RustStruct(<<<<"key", "secret">>>>), RustUnsupported}
Slices == {<<1, 2>>}
Records ==
    {<<<<"app-0", "fi">>, <<"app-1", "hi">>>>, <<<<"app-1", "hi">>, <<"app-0", "fi">>>>,
     <<<<"2", "fi">>, <<"1", "hi">>>>, <<<<"app-0", "fi">>, <<"app-0", "hi">>>>}
\* the iteration sequences of the HashMap {"secret": "2", "data": "3"}
MapIters == {<<<<"secret", "2">>, <<"data", "3">>>>, <<<<"data", "3">>, <<"secret", "2">>>>}
\* no serializer step fails, or exactly one of the steps 0 .. n+1 does
Faults(fields) == {{}} \cup {{k} : k \in 0 .. Len(fields) + 1}
Targets ==
    {Any, App} \cup {AnyLabel(l) : l \in Labels} \cup {Window(l) : l \in Labels}
        \cup {Webview(l) : l \in Labels} \cup {WebviewWindow(l) : l \in Labels}
CoreArgs == {Slice(<<1, 2>>), Custom(Err(JsError("args")))}
CoreHeaders == {Custom(Ok(JsObject(<<<<"secret", JsString("37")>>>>))), Custom(Err(JsError("headers")))}
HeaderValues ==
    {WebHeaders(<<<<"secret", "37">>>>), Custom(Err(Error(JsString("bad"))))}
\* what the host rejects with: an object, a string, an Error, an object String() throws on
RejectValues ==
    {JsObject(<<<<"code", JsString("42")>>>>), JsString("denied"), JsError("boom"),
     JsObject(<<<<"toString", JsString("x")>>>>)}

(***************************************************************************)
(* State                                                                   *)
(***************************************************************************)
VARIABLES
    bare,      \* per request: the caller took the JsFuture out of the InvokeFuture / EmitFuture
    stage,     \* per request: "new", "built", "pending", "done", "failed", "dropped"
    kind,      \* per request: "none", "invoke", "emit", "core": the API the caller uses
    req,       \* per request: the Invoke or Emit value the caller holds, or None
    held,      \* per request: the encoded args (Data) and Options the caller holds,
               \* and the pairs from_record or from_map was given for these Options
    hist,      \* per request: the builder steps applied so far
    calls,     \* per request: the calls the host received for it
    promise,   \* per request: the state of the promise ext::invoke returned
    result,    \* per request: what awaiting returned to the caller, or None
    fail,      \* per request: the part that failed: "none", "args", "headers", "payload", "host"
    rendered,  \* per request: the text Display produced for the error, or the exception
               \* it ended with, or None
    supplied   \* per request: the last values given to with_args and with_options,
               \* and for an emission the event and the payload given to emit

vars == <<stage, kind, req, held, hist, calls, promise, result, fail, rendered, supplied, bare>>

NoHeld == [args |-> None, opts |-> None, given |-> None]
Pending == [state |-> "pending"]
Resolved(v) == [state |-> "resolved", v |-> v]
Rejected(v) == [state |-> "rejected", v |-> v]

Init ==
    /\ stage = [r \in Reqs |-> "new"]
    /\ kind = [r \in Reqs |-> "none"]
    /\ req = [r \in Reqs |-> None]
    /\ held = [r \in Reqs |-> NoHeld]
    /\ hist = [r \in Reqs |-> <<>>]
    /\ calls = [r \in Reqs |-> <<>>]
    /\ promise = [r \in Reqs |-> None]
    /\ result = [r \in Reqs |-> None]
    /\ fail = [r \in Reqs |-> "none"]
    /\ rendered = [r \in Reqs |-> None]
    /\ supplied = [r \in Reqs |-> NoHeld]
    /\ bare = [r \in Reqs |-> FALSE]

(***************************************************************************)
(* Scheduling: wasm runs the callers on one thread, so each step below is  *)
(* atomic; the callers' steps, the host's settling of a promise and the    *)
(* drop of a future may come in any order (join!, select!, spawn_local).   *)
(***************************************************************************)
\* a request not started yet takes the lowest free slot
CanStart(r) == \A q \in Reqs : q < r => ~(stage[q] = "new" /\ kind[q] = "none")

\* the caller's `?`: the failure is returned and the values it held are dropped
Failed(r, part, e) ==
    /\ stage' = [stage EXCEPT ![r] = "failed"]
    /\ result' = [result EXCEPT ![r] = Err(e)]
    /\ fail' = [fail EXCEPT ![r] = part]
    /\ req' = [req EXCEPT ![r] = None]
    /\ held' = [held EXCEPT ![r] = NoHeld]

(***************************************************************************)
(* The awaiting side: IntoFuture, Future::poll                             *)
(***************************************************************************)
\* mutant: the request stays usable after it was awaited (into_future(&self))
OwnedAfterAwait(r) == stage[r] \in {"built", "pending"}

\* the caller still owns the Invoke / Emit value: into_future(self) moves it
Owned(r) == stage[r] = "built"

\* mutant: the call is issued a second time
IssueTwice(log, call) == Append(Append(log, call), call)

\* the one call of ext::invoke in into_future / invoke_emit, as the host records it
Issue(log, call) == Append(log, call)

\* mutant: the host's error is turned into its text when it is wrapped
Future_poll_stringify(p) ==
    IF p.state = "resolved" THEN Ok(p.v)
    ELSE LET s == ext_to_string(p.v) IN
         Err(Error(JsString(IF "text" \in DOMAIN s THEN s.text ELSE s.thrown)))

\* mutant: the resolved value is turned into its text before it is returned
Future_poll_lossy(p) ==
    IF p.state = "resolved"
    THEN LET s == ext_to_string(p.v) IN Ok(JsString(IF "text" \in DOMAIN s THEN s.text ELSE s.thrown))
    ELSE Err(Error(p.v))

\* InvokeFuture::poll and EmitFuture::poll on a settled promise: map_err(Error)
Future_poll(p) == IF p.state = "resolved" THEN Ok(p.v) ELSE Err(Error(p.v))

\* the JsFuture that InvokeFuture::into_future / EmitFuture::into_future returned,
\* on a settled promise: the rejection value as it is
JsFuture_poll(p) == IF p.state = "resolved" THEN Ok(p.v) ELSE Err(p.v)

\* the .await.map_err(Error::Invoke) of core.rs on a settled promise
core_poll(p) == IF p.state = "resolved" THEN Ok(p.v) ELSE Err(CoreError("Invoke", p.v))

\* mutant: a request equal to one already in flight is coalesced with it: no call of its own
AwaitCoalesced(r, call) ==
    /\ calls' = [calls EXCEPT ![r] =
                   IF \E q \in Reqs \ {r} : stage[q] = "pending" /\ calls[q] = <<call>>
                   THEN calls[r] ELSE Issue(calls[r], call)]
    /\ promise' = [promise EXCEPT ![r] = Pending]
    /\ stage' = [stage EXCEPT ![r] = "pending"]

\* into_future: the call is issued and its promise becomes the future the caller awaits
Await(r, call) ==
    /\ calls' = [calls EXCEPT ![r] = Issue(calls[r], call)]
    /\ promise' = [promise EXCEPT ![r] = Pending]
    /\ stage' = [stage EXCEPT ![r] = "pending"]

(***************************************************************************)
(* Actions of the builder API (invoke.rs, serde.rs)                        *)
(***************************************************************************)
\* let args = tauri_wasm::args(&v)?;
Args(r, v) ==
    /\ stage[r] \in {"new", "built"}
    /\ kind[r] \in {"none", "invoke"}
    /\ (stage[r] = "new" /\ kind[r] = "none") => CanStart(r)
    /\ held[r].args = None
    /\ LET res == args(v) IN
       IF res.ok
       THEN /\ held' = [held EXCEPT ![r].args = res.val]
            /\ kind' = [kind EXCEPT ![r] = "invoke"]
            /\ UNCHANGED <<stage, req, result, fail>>
       ELSE /\ Failed(r, "args", res.err)
            /\ kind' = [kind EXCEPT ![r] = "invoke"]
    /\ UNCHANGED <<hist, calls, promise, rendered>>
    /\ UNCHANGED <<supplied, bare>>

\* the caller holds the Options that from_record / from_map returned, or fails
HoldOptions(r, res, given) ==
    /\ stage[r] \in {"new", "built"}
    /\ kind[r] \in {"none", "invoke"}
    /\ (stage[r] = "new" /\ kind[r] = "none") => CanStart(r)
    /\ held[r].opts = None
    /\ IF res.ok
       THEN /\ held' = [held EXCEPT ![r].opts = res.val, ![r].given = given]
            /\ kind' = [kind EXCEPT ![r] = "invoke"]
            /\ UNCHANGED <<stage, req, result, fail>>
       ELSE /\ Failed(r, "headers", res.err)
            /\ kind' = [kind EXCEPT ![r] = "invoke"]
    /\ UNCHANGED <<hist, calls, promise, rendered>>
    /\ UNCHANGED <<supplied, bare>>

\* let opts = Options::from_record(fields)?;
FromRecord(r, fields, faults) ==
    HoldOptions(r, from_record(fields, faults), [of |-> "record", pairs |-> fields])

\* let opts = Options::from_map(&map)?;
FromMap(r, iter, faults) ==
    HoldOptions(r, from_map(iter, faults), [of |-> "map", pairs |-> iter])

\* let opts = headers.into_options()?;
IntoOptions(r, h) == HoldOptions(r, into_options(h), [of |-> "headers", pairs |-> <<>>])

\* tauri_wasm::invoke(cmd)
Invoke(r, cmd) ==
    /\ stage[r] = "new"
    /\ kind[r] \in {"none", "invoke"}
    /\ kind[r] = "none" => CanStart(r)
    /\ req' = [req EXCEPT ![r] = api_invoke(cmd)]
    /\ stage' = [stage EXCEPT ![r] = "built"]
    /\ kind' = [kind EXCEPT ![r] = "invoke"]
    /\ UNCHANGED <<held, hist, calls, promise, result, fail, rendered>>
    /\ UNCHANGED <<supplied, bare>>

\* .with_args(bytes)
WithArgsSlice(r, bytes) ==
    /\ Owned(r) /\ kind[r] = "invoke"
    /\ Len(hist[r]) < MaxSteps
    /\ req' = [req EXCEPT ![r] = with_args(req[r], Slice(bytes))]
    /\ hist' = [hist EXCEPT ![r] = Append(hist[r], "with_args")]
    /\ UNCHANGED <<stage, kind, held, calls, promise, result, fail, rendered>>
    /\ supplied' = [supplied EXCEPT ![r].args = Slice(bytes)]
    /\ UNCHANGED bare

\* .with_args(args), args being the value args() returned
WithArgsData(r) ==
    /\ Owned(r) /\ kind[r] = "invoke"
    /\ Len(hist[r]) < MaxSteps
    /\ held[r].args # None
    /\ req' = [req EXCEPT ![r] = with_args(req[r], held[r].args)]
    /\ held' = [held EXCEPT ![r].args = None]
    /\ hist' = [hist EXCEPT ![r] = Append(hist[r], "with_args")]
    /\ UNCHANGED <<stage, kind, calls, promise, result, fail, rendered>>
    /\ supplied' = [supplied EXCEPT ![r].args = held[r].args]
    /\ UNCHANGED bare

\* .with_options(opts)
WithOptions(r) ==
    /\ Owned(r) /\ kind[r] = "invoke"
    /\ Len(hist[r]) < MaxSteps
    /\ held[r].opts # None
    /\ req' = [req EXCEPT ![r] = with_options(req[r], held[r].opts)]
    /\ held' = [held EXCEPT ![r].opts = None, ![r].given = None]
    /\ hist' = [hist EXCEPT ![r] = Append(hist[r], "with_options")]
    /\ UNCHANGED <<stage, kind, calls, promise, result, fail, rendered>>
    /\ supplied' = [supplied EXCEPT ![r].opts = held[r].opts]
    /\ UNCHANGED bare

\* .await on an Invoke: IntoFuture::into_future
IntoFuture(r) ==
    /\ Owned(r) /\ kind[r] = "invoke"
    /\ Await(r, ext_invoke(req[r].cmd, req[r].args, req[r].opts))
    /\ UNCHANGED <<kind, req, held, hist, result, fail, rendered>>
    /\ UNCHANGED <<supplied, bare>>

(***************************************************************************)
(* Actions of the event API (event.rs)                                     *)
(***************************************************************************)
\* tauri_wasm::emit(event, &payload)?
Emit(r, event, payload) ==
    /\ stage[r] = "new" /\ kind[r] = "none" /\ CanStart(r)
    /\ kind' = [kind EXCEPT ![r] = "emit"]
    /\ LET res == api_emit(event, payload) IN
       IF res.ok
       THEN /\ req' = [req EXCEPT ![r] = res.val]
            /\ stage' = [stage EXCEPT ![r] = "built"]
            /\ UNCHANGED <<held, result, fail>>
       ELSE Failed(r, "payload", res.err)
    /\ UNCHANGED <<hist, calls, promise, rendered>>
    /\ supplied' = [supplied EXCEPT ![r] =
                      [args |-> None, opts |-> None, event |-> event, payload |-> payload]]
    /\ UNCHANGED bare

\* .to(target)
To(r, target) ==
    /\ Owned(r) /\ kind[r] = "emit"
    /\ Len(hist[r]) < MaxSteps
    /\ req' = [req EXCEPT ![r] = Emit_to(req[r], target)]
    /\ hist' = [hist EXCEPT ![r] = Append(hist[r], "to")]
    /\ UNCHANGED <<stage, kind, held, calls, promise, result, fail, rendered>>
    /\ UNCHANGED <<supplied, bare>>

\* .await on an Emit: IntoFuture::into_future
EmitIntoFuture(r) ==
    /\ Owned(r) /\ kind[r] = "emit"
    /\ Await(r, invoke_emit(req[r].target, req[r].event, req[r].payload))
    /\ UNCHANGED <<kind, req, held, hist, result, fail, rendered>>
    /\ UNCHANGED <<supplied, bare>>

(***************************************************************************)
(* Actions of the free-function API (core.rs)                              *)
(***************************************************************************)
\* tauri_wasm::invoke(cmd).await
CoreInvoke(r, cmd) ==
    /\ stage[r] = "new" /\ kind[r] = "none" /\ CanStart(r)
    /\ kind' = [kind EXCEPT ![r] = "core"]
    /\ Await(r, core_invoke(cmd))
    /\ hist' = [hist EXCEPT ![r] = <<"invoke">>]
    /\ UNCHANGED <<req, held, result, fail, rendered>>
    /\ UNCHANGED <<supplied, bare>>

\* the call of ext::invoke, or the Error::Args failure, of invoke_with_args / invoke_with_options
CoreCall(r, res, entry) ==
    /\ kind' = [kind EXCEPT ![r] = "core"]
    /\ hist' = [hist EXCEPT ![r] = <<entry>>]
    /\ IF res.ok
       THEN /\ Await(r, res.val)
            /\ held' = [held EXCEPT ![r] = NoHeld]
            /\ UNCHANGED <<req, result, fail>>
       ELSE /\ Failed(r, "args", res.err)
            /\ UNCHANGED <<calls, promise>>
    /\ UNCHANGED rendered
    /\ UNCHANGED <<supplied, bare>>

\* tauri_wasm::invoke_with_args(cmd, args).await
CoreInvokeWithArgs(r, cmd, a) ==
    /\ stage[r] = "new" /\ kind[r] = "none" /\ CanStart(r)
    /\ CoreCall(r, core_invoke_with_args(cmd, a), "invoke_with_args")

\* let opts = headers.to_options()?;
CoreToOptions(r, h) ==
    /\ stage[r] = "new" /\ kind[r] = "none" /\ CanStart(r)
    /\ kind' = [kind EXCEPT ![r] = "core"]
    /\ LET res == core_to_options(h) IN
       IF res.ok
       THEN /\ held' = [held EXCEPT ![r].opts = res.val]
            /\ UNCHANGED <<stage, req, result, fail>>
       ELSE Failed(r, "headers", res.err)
    /\ UNCHANGED <<hist, calls, promise, rendered>>
    /\ UNCHANGED <<supplied, bare>>

\* tauri_wasm::invoke_with_options(cmd, args, opts).await
CoreInvokeWithOptions(r, cmd, a) ==
    /\ stage[r] = "new" /\ kind[r] = "core"
    /\ held[r].opts # None
    /\ CoreCall(r, core_invoke_with_options(cmd, a, held[r].opts), "invoke_with_options")

(***************************************************************************)
(* The host and the executor                                               *)
(***************************************************************************)
\* what the host may resolve with: "ok", or the args it received (an echo)
ResolveValues(r) == {JsString("ok")} \cup {calls[r][i].args : i \in 1 .. Len(calls[r])}

\* the host resolves the promise
HostResolve(r, v) ==
    /\ promise[r] = Pending
    /\ promise' = [promise EXCEPT ![r] = Resolved(v)]
    /\ UNCHANGED <<stage, kind, req, held, hist, calls, result, fail, rendered>>
    /\ UNCHANGED <<supplied, bare>>

\* the host rejects the promise with a raw error value
HostReject(r, v) ==
    /\ promise[r] = Pending
    /\ promise' = [promise EXCEPT ![r] = Rejected(v)]
    /\ UNCHANGED <<stage, kind, req, held, hist, calls, result, fail, rendered>>
    /\ UNCHANGED <<supplied, bare>>

\* InvokeFuture::into_future / EmitFuture::into_future: the caller takes the inner JsFuture
InvokeFuture_into_future(r) ==
    /\ stage[r] = "pending" /\ kind[r] \in {"invoke", "emit"}
    /\ ~bare[r]
    /\ bare' = [bare EXCEPT ![r] = TRUE]
    /\ UNCHANGED <<stage, kind, req, held, hist, calls, promise, result, fail, rendered, supplied>>

\* the executor polls the future of a settled promise: the await returns
Poll(r) ==
    /\ stage[r] = "pending"
    /\ promise[r] # Pending
    /\ result' = [result EXCEPT ![r] =
                    IF kind[r] = "core" THEN core_poll(promise[r])
                    ELSE IF bare[r] THEN JsFuture_poll(promise[r])
                    ELSE Future_poll(promise[r])]
    /\ fail' = [fail EXCEPT ![r] = IF promise[r].state = "rejected" THEN "host" ELSE "none"]
    /\ stage' = [stage EXCEPT ![r] = "done"]
    /\ UNCHANGED <<kind, req, held, hist, calls, promise, rendered>>
    /\ UNCHANGED <<supplied, bare>>

\* mutant: dropping the future sends the host a call that cancels the request
DropCancels(r) ==
    /\ stage[r] = "pending"
    /\ stage' = [stage EXCEPT ![r] = "dropped"]
    /\ calls' = [calls EXCEPT ![r] = Append(calls[r], ext_invoke(JsString("cancel"), Undefined, Options_empty))]
    /\ UNCHANGED <<kind, req, held, hist, promise, result, fail, rendered>>
    /\ UNCHANGED <<supplied, bare>>

\* the caller drops the future before it resolved
Drop(r) ==
    /\ stage[r] = "pending"
    /\ stage' = [stage EXCEPT ![r] = "dropped"]
    /\ UNCHANGED <<kind, req, held, hist, calls, promise, result, fail, rendered>>
    /\ UNCHANGED <<supplied, bare>>

\* the caller renders the error it got: impl Display for Error.  When String()
\* throws, the exception leaves the caller's code: nothing follows but the end of
\* the request.
Display(r) ==
    /\ stage[r] \in {"done", "failed"}
    /\ result[r] # None /\ ~result[r].ok
    /\ ~bare[r]
    /\ rendered[r] = None
    /\ rendered' = [rendered EXCEPT ![r] = ErrorDisplay(result[r].err)]
    /\ UNCHANGED <<stage, kind, req, held, hist, calls, promise, result, fail>>
    /\ UNCHANGED <<supplied, bare>>

\* the caller is done with the request: its values are dropped and the slot is free again
Finish(r) ==
    /\ \/ stage[r] \in {"done", "failed"}
       \/ stage[r] = "dropped"
    /\ stage' = [stage EXCEPT ![r] = "new"]
    /\ kind' = [kind EXCEPT ![r] = "none"]
    /\ req' = [req EXCEPT ![r] = None]
    /\ held' = [held EXCEPT ![r] = NoHeld]
    /\ hist' = [hist EXCEPT ![r] = <<>>]
    /\ calls' = [calls EXCEPT ![r] = <<>>]
    /\ promise' = [promise EXCEPT ![r] = None]
    /\ result' = [result EXCEPT ![r] = None]
    /\ fail' = [fail EXCEPT ![r] = "none"]
    /\ rendered' = [rendered EXCEPT ![r] = None]
    /\ supplied' = [supplied EXCEPT ![r] = NoHeld]
    /\ bare' = [bare EXCEPT ![r] = FALSE]

\* the request in slot r is the only one in progress: the caller awaits each
\* request to its end before it starts the next one
Alone(r) == \A q \in Reqs \ {r} : stage[q] = "new" /\ kind[q] = "none"

\* requests made one after the other
Next ==
    \E r \in Reqs :
    \/ Alone(r) /\ \E v \in ArgValues : Args(r, v)
    \/ Alone(r) /\ \E fields \in Records : \E faults \in Faults(fields) : FromRecord(r, fields, faults)
    \/ Alone(r) /\ \E iter \in MapIters : \E faults \in Faults(iter) : FromMap(r, iter, faults)
    \/ Alone(r) /\ \E h \in HeaderValues : IntoOptions(r, h)
    \/ Alone(r) /\ \E cmd \in Cmds : Invoke(r, cmd)
    \/ Alone(r) /\ \E bytes \in Slices : WithArgsSlice(r, bytes)
    \/ Alone(r) /\ WithArgsData(r)
    \/ Alone(r) /\ WithOptions(r)
    \/ Alone(r) /\ IntoFuture(r)
    \/ Alone(r) /\ \E event \in Events : \E payload \in Payloads : Emit(r, event, payload)
    \/ Alone(r) /\ \E target \in Targets : To(r, target)
    \/ Alone(r) /\ EmitIntoFuture(r)
    \/ Alone(r) /\ \E cmd \in Cmds : CoreInvoke(r, cmd)
    \/ Alone(r) /\ \E cmd \in Cmds : \E a \in CoreArgs : CoreInvokeWithArgs(r, cmd, a)
    \/ Alone(r) /\ \E h \in CoreHeaders : CoreToOptions(r, h)
    \/ Alone(r) /\ \E cmd \in Cmds : \E a \in CoreArgs : CoreInvokeWithOptions(r, cmd, a)
    \/ Alone(r) /\ \E v \in ResolveValues(r) : HostResolve(r, v)
    \/ Alone(r) /\ \E v \in RejectValues : HostReject(r, v)
    \/ Alone(r) /\ InvokeFuture_into_future(r)
    \/ Alone(r) /\ Poll(r)
    \/ Alone(r) /\ Drop(r)
    \/ Alone(r) /\ Display(r)
    \/ Alone(r) /\ Finish(r)

Spec == Init /\ [][Next]_vars

\* the payloads, targets and header records of the concurrent callers
ConcPayloads == {RustStr("/tmp/a")}
ConcTargets == {Window("main")}
ConcRejectValues == {JsObject(<<<<"code", JsString("42")>>>>)}
ConcRecords == {<<<<"app-0", "fi">>, <<"app-1", "hi">>>>}

\* requests started concurrently (join!, select!, spawn_local): the steps of the
\* callers, of the host and of the executor in any order
NextConc ==
    \E r \in Reqs :
    \/ \E fields \in ConcRecords : FromRecord(r, fields, {})
    \/ \E cmd \in Cmds : Invoke(r, cmd)
    \/ \E bytes \in Slices : WithArgsSlice(r, bytes)
    \/ WithOptions(r)
    \/ IntoFuture(r)
    \/ \E event \in Events : \E payload \in ConcPayloads : Emit(r, event, payload)
    \/ \E target \in ConcTargets : To(r, target)
    \/ EmitIntoFuture(r)
    \/ \E v \in ResolveValues(r) : HostResolve(r, v)
    \/ \E v \in ConcRejectValues : HostReject(r, v)
    \/ InvokeFuture_into_future(r)
    \/ Poll(r)
    \/ Drop(r)
    \/ Display(r)
    \/ Finish(r)

SpecConc == Init /\ [][NextConc]_vars

(***************************************************************************)
(* Properties                                                              *)
(***************************************************************************)
Range(f) == {f[i] : i \in DOMAIN f}

\* the request was awaited: its value was moved into a future
Awaited(r) == stage[r] \in {"pending", "done", "dropped"}

\* the args and options a call must carry, given what the builder was handed
ExpectedArgs(r) == IF supplied[r].args = None THEN [t |-> "undefined"] ELSE to_args(supplied[r].args)
ExpectedOpts(r) == IF supplied[r].opts = None THEN [headers |-> [t |-> "undefined"]] ELSE supplied[r].opts

\* C1: an awaited Invoke has issued exactly one host call, carrying the command,
\* args and options the builder accumulated, and it stays the only one whether
\* the host resolves or rejects it; a request not awaited has issued none.
C1_ExactlyOneCall ==
    \A r \in Reqs :
        kind[r] = "invoke" =>
            /\ ~Awaited(r) => calls[r] = <<>>
            /\ Awaited(r) =>
                 /\ calls[r] = <<[cmd |-> req[r].cmd, args |-> ExpectedArgs(r), opts |-> ExpectedOpts(r)]>>
                 /\ req[r].cmd \in {[t |-> "string", s |-> c] : c \in Cmds}

C1_Witness ==
    \E r \in Reqs :
        /\ kind[r] = "invoke" /\ stage[r] = "done"
        /\ promise[r].state = "rejected" /\ ~result[r].ok
        /\ supplied[r].args # None /\ supplied[r].opts # None
        /\ Len(calls[r]) = 1

C2_Variants == <<"Any", "AnyLabel", "App", "Window", "Webview", "WebviewWindow">>

\* C2: every emission's call carries the (discriminant, label) pair of the fixed
\* table: no target -> (0, undefined), and the six variants, in the order listed,
\* -> 1..6 with the label for the labelled ones and undefined for Any and App.
C2_TargetTable ==
    \A r \in Reqs :
        kind[r] = "emit" =>
            \A i \in 1 .. Len(calls[r]) :
                LET a == calls[r][i].args
                    t == req[r].target
                IN  /\ a.kind \in 0 .. 6
                    /\ t = None => a.kind = 0 /\ a.label = Undefined
                    /\ t # None =>
                         /\ a.kind \in 1 .. 6
                         /\ C2_Variants[a.kind] = t.v
                         /\ a.label = IF t.v \in {"Any", "App"} THEN Undefined ELSE t.s

C2_Witness ==
    \E r \in Reqs :
        /\ kind[r] = "emit" /\ Awaited(r)
        /\ req[r].target = [v |-> "Window", s |-> [t |-> "string", s |-> "main"]]
        /\ calls[r][1].args.kind = 4
        /\ calls[r][1].args.label = [t |-> "string", s |-> "main"]

\* C3: an emission that never had `to` applied calls "plugin:event|emit", one with
\* any target calls "plugin:event|emit_to"; no other command is used, whatever the
\* event, the payload and the label.
C3_CommandByTargetPresence ==
    \A r \in Reqs :
        kind[r] = "emit" =>
            \A i \in 1 .. Len(calls[r]) :
                /\ hist[r] = <<>> => calls[r][i].cmd = [t |-> "string", s |-> "plugin:event|emit"]
                /\ hist[r] # <<>> => calls[r][i].cmd = [t |-> "string", s |-> "plugin:event|emit_to"]
                /\ (hist[r] = <<>>) <=> (req[r].target = None)

C3_Witness ==
    \E r \in Reqs :
        /\ kind[r] = "emit" /\ Awaited(r)
        /\ req[r].target = App
        /\ calls[r][1].cmd = EMIT_TO

\* the call was made through an entry point that takes no args, or no args were supplied
NoArgsSupplied(r) ==
    \/ kind[r] = "invoke" /\ supplied[r].args = None
    \/ kind[r] = "core" /\ hist[r] = <<"invoke">>

\* C4: every call issued without args having been supplied passes the
\* undefined sentinel as args (never null, never an empty object), for every
\* entry point that invokes a command without args.
C4_OmittedArgsUndefined ==
    \A r \in Reqs :
        NoArgsSupplied(r) => \A i \in 1 .. Len(calls[r]) : calls[r][i].args = Undefined

\* C5: a call issued without with_options, and every emission's call, carries
\* options whose headers are undefined (not an empty object); supplied options
\* are passed with exactly the headers they were built with.
C5_OmittedOptionsAbsentHeaders ==
    \A r \in Reqs :
        \A i \in 1 .. Len(calls[r]) :
            LET c == calls[r][i] IN
            /\ kind[r] = "emit" => c.opts = [headers |-> Undefined]
            /\ kind[r] = "invoke" /\ supplied[r].opts = None =>
                 c.opts = [headers |-> Undefined] /\ c.opts.headers # EmptyObject
            /\ kind[r] = "invoke" /\ supplied[r].opts # None =>
                 c.opts.headers = supplied[r].opts.headers

C5_Witness ==
    \E r \in Reqs :
        /\ kind[r] = "invoke" /\ Awaited(r)
        /\ supplied[r].opts = None /\ supplied[r].args # None
        /\ calls[r][1].opts.headers = Undefined

\* what Display gives for each value the host rejects with, as JavaScript's String does
C6_Rendering(v) ==
    CASE v = [t |-> "string", s |-> "denied"] -> [text |-> "denied"]
      [] v = [t |-> "error", msg |-> "boom"] -> [text |-> "Error: boom"]
      [] v = [t |-> "object", fields |-> <<<<"code", [t |-> "string", s |-> "42"]>>>>] ->
             [text |-> "[object Object]"]
      [] v = [t |-> "object", fields |-> <<<<"toString", [t |-> "string", s |-> "x"]>>>>] ->
             [thrown |-> "TypeError"]

\* C6: when the host rejects with raw value v, awaiting an invoke or an emit
\* returns Err(Error(v)): v is wrapped once, never in a second Error; rendering the
\* Error with Display, whether it writes v's text or String(v) throws, leaves the
\* Error as it was, and converting it back returns v.  (A caller that took the
\* inner JsFuture awaits that instead and gets v itself.)
C6_ErrorRawPreserved ==
    \A r \in Reqs :
        (stage[r] = "done" /\ kind[r] \in {"invoke", "emit"} /\ promise[r].state = "rejected") =>
            /\ promise[r].v \in RejectValues
            /\ ~bare[r] =>
                 /\ result[r] = [ok |-> FALSE, err |-> [raw |-> promise[r].v]]
                 /\ "raw" \notin DOMAIN result[r].err.raw
                 /\ ErrorIntoJsValue(result[r].err) = promise[r].v
                 /\ rendered[r] # None => rendered[r] = C6_Rendering(promise[r].v)
            /\ bare[r] => result[r] = [ok |-> FALSE, err |-> promise[r].v] /\ rendered[r] = None

\* the host rejected an emission with an Error object; the caller rendered the
\* Error it got and still holds it unchanged
C6_Witness ==
    \E r \in Reqs :
        /\ stage[r] = "done" /\ kind[r] = "emit" /\ ~bare[r]
        /\ promise[r] = Rejected(JsError("boom"))
        /\ rendered[r] = [text |-> "Error: boom"]
        /\ result[r] = Err(Error(JsError("boom")))
        /\ ErrorIntoJsValue(result[r].err) = JsError("boom")

\* C7: an encoding failure of args, headers or an event payload is returned to
\* the caller as an Error wrapping the serializer's error; no request value and no
\* promise exist for it, the host received no call, and no call ever carries the
\* serializer's error as its args, payload or headers.
C7_EncodingFailureLocal ==
    \A r \in Reqs :
        /\ fail[r] \in {"args", "headers", "payload"} =>
             /\ stage[r] = "failed"
             /\ ~result[r].ok /\ result[r].err.raw.t \in {"error", "string"}
             /\ req[r] = None
             /\ calls[r] = <<>> /\ promise[r] = None
        /\ \A i \in 1 .. Len(calls[r]) :
             LET c == calls[r][i] IN
             /\ c.args.t # "error"
             /\ c.args.t = "eargs" => c.args.payload.t # "error"
             /\ c.opts # None => c.opts.headers.t # "error"

C7_Witness ==
    \E r \in Reqs :
        /\ kind[r] = "invoke" /\ fail[r] = "headers" /\ stage[r] = "failed"
        /\ result[r] = Err(Error(SerdeError))
        /\ calls[r] = <<>>

\* the category a caller can tell an error by: the variant of core.rs's enum,
\* or the one struct of error.rs
Category(e) == IF "cat" \in DOMAIN e THEN e.cat ELSE "Error"

\* C8 (as stated): a headers-encoding failure has a category different from the
\* category of an args-encoding failure.
C8_HeadersFailureDistinct ==
    \A r \in Reqs :
        fail[r] = "headers" =>
            /\ Category(result[r].err) # Category(args(RustUnsupported).err)
            /\ Category(result[r].err) #
                 Category(core_invoke_with_args("connect", Custom(Err(JsError("args")))).err)

\* C8 (amended): with the free functions of core.rs a headers failure is
\* Error::Headers and an args failure Error::Args; with args(), from_map and
\* from_record both are the one Error struct, which carries the raw value only.
C8_CategoriesByApi ==
    \A r \in Reqs :
        fail[r] \in {"args", "headers"} =>
            IF kind[r] = "core"
            THEN result[r].err.cat = (IF fail[r] = "headers" THEN "Headers" ELSE "Args")
            ELSE DOMAIN result[r].err = {"raw"} /\ Category(result[r].err) = "Error"

C8_Witness ==
    \E r \in Reqs :
        /\ kind[r] = "core" /\ fail[r] = "headers" /\ stage[r] = "failed"
        /\ result[r].err.cat = "Headers"

\* C9 (as stated): no with_args step is applied to a request whose options
\* have been set.
C9_ForwardOnly ==
    [][\A r \in Reqs :
          (kind[r] = "invoke" /\ stage[r] = "built" /\ stage'[r] = "built"
              /\ "with_options" \in Range(hist[r]) /\ Len(hist'[r]) > Len(hist[r]))
          => hist'[r][Len(hist'[r])] # "with_args"]_vars

StageRank(st) ==
    CASE st = "new" -> 0
      [] st = "built" -> 1
      [] st = "pending" -> 2
      [] OTHER -> 3

\* C9 (amended): the builder only goes forward (new, built, awaited, finished) and
\* no step undoes another: the steps applied so far stay applied, the command stays,
\* with_options keeps the args and with_args keeps the options, in whichever order
\* and however often the two are applied; only the await ends the chain.
C9_StepsNeverUndone ==
    [][\A r \in Reqs :
          kind[r] = "invoke" =>
              /\ stage'[r] # stage[r] => (StageRank(stage'[r]) > StageRank(stage[r]) \/ stage'[r] = "new")
              /\ (stage[r] = "built" /\ stage'[r] \in {"built", "pending"}) =>
                   /\ Len(hist'[r]) >= Len(hist[r])
                   /\ SubSeq(hist'[r], 1, Len(hist[r])) = hist[r]
                   /\ req'[r].cmd = req[r].cmd
                   /\ (hist'[r] = hist[r] \/ hist'[r][Len(hist'[r])] # "with_args") => req'[r].args = req[r].args
                   /\ (hist'[r] = hist[r] \/ hist'[r][Len(hist'[r])] # "with_options") => req'[r].opts = req[r].opts
                   /\ supplied[r].args # None => supplied'[r].args # None
                   /\ supplied[r].opts # None => supplied'[r].opts # None]_vars

C9_Witness ==
    \E r \in Reqs :
        /\ kind[r] = "invoke" /\ stage[r] = "pending"
        /\ hist[r] = <<"with_options", "with_args">>
        /\ calls[r][1].opts = supplied[r].opts
        /\ calls[r][1].args = to_args(supplied[r].args)

\* C10: once a request has been awaited nothing can be applied to it any more:
\* its fields, the steps applied and the calls issued for it stay as they are until
\* the caller is done with it.
C10_SingleUse ==
    [][\A r \in Reqs :
          (kind[r] \in {"invoke", "emit"} /\ Awaited(r)) =>
              \/ stage'[r] = "new" /\ req'[r] = None
              \/ /\ Awaited(r)'
                 /\ req'[r] = req[r]
                 /\ hist'[r] = hist[r]
                 /\ supplied'[r] = supplied[r]
                 /\ calls'[r] = calls[r]]_vars

C10_Witness ==
    \E r \in Reqs :
        /\ kind[r] = "invoke" /\ stage[r] = "done"
        /\ hist[r] # <<>>
        /\ Len(calls[r]) = 1
        /\ result[r].ok

\* C11: when the host resolves a call with v, awaiting returns Ok(v), v unmodified;
\* a host that echoes its args returns the encoded args the builder was given, and
\* a host that resolves invoke(cmd) without args or options with "ok" returns "ok".
C11_ResolvedValueUnmodified ==
    \A r \in Reqs :
        (stage[r] = "done" /\ promise[r].state = "resolved") =>
            /\ result[r] = [ok |-> TRUE, val |-> promise[r].v]
            /\ fail[r] = "none"
            /\ (kind[r] = "invoke" /\ promise[r].v = calls[r][1].args) =>
                 result[r].val = ExpectedArgs(r)
            /\ (kind[r] = "invoke" /\ hist[r] = <<>> /\ promise[r].v = [t |-> "string", s |-> "ok"]) =>
                 result[r].val = [t |-> "string", s |-> "ok"]

C11_Witness ==
    \E r \in Reqs :
        /\ kind[r] = "invoke" /\ stage[r] = "done"
        /\ hist[r] = <<"with_args">>
        /\ supplied[r].args = Data(to_value(RustStruct(<<<<"name", "anon">>, <<"pass", "x">>>>)).val)
        /\ promise[r].state = "resolved"
        /\ result[r] = Ok(JsObject(<<<<"name", JsString("anon")>>, <<"pass", JsString("x")>>>>))

\* C12: an awaited Emit has issued exactly one host call, whose args carry the
\* event name and the encoded payload given to emit(), with or without `to`; a
\* `to` step changes the target only and leaves the event and the payload as they were.
C12_EmitCarriesEventAndPayload ==
    \A r \in Reqs :
        (kind[r] = "emit" /\ stage[r] # "failed") =>
            /\ ~Awaited(r) => calls[r] = <<>>
            /\ (stage[r] = "built" \/ Awaited(r)) =>
                 /\ req[r].event = [t |-> "string", s |-> supplied[r].event]
                 /\ req[r].payload = to_value(supplied[r].payload).val
                 /\ (hist[r] = <<>>) <=> (req[r].target = None)
            /\ Awaited(r) =>
                 /\ Len(calls[r]) = 1
                 /\ calls[r][1].args.t = "eargs"
                 /\ calls[r][1].args.event = [t |-> "string", s |-> supplied[r].event]
                 /\ calls[r][1].args.payload = to_value(supplied[r].payload).val
                 /\ calls[r][1].args.payload.t \in {"string", "object"}

C12_Witness ==
    \E r \in Reqs :
        /\ kind[r] = "emit" /\ stage[r] = "pending"
        /\ hist[r] = <<"to">>
        /\ supplied[r].event = "file-selected" /\ supplied[r].payload = RustStr("/tmp/a")
        /\ calls[r] = <<[cmd |-> JsString("plugin:event|emit_to"),
                         args |-> [t |-> "eargs", event |-> JsString("file-selected"),
                                   payload |-> JsString("/tmp/a"), kind |-> 4,
                                   label |-> JsString("main")],
                         opts |-> [headers |-> Undefined]]>>

\* the number of requests in flight or completed, and of the calls the host received
RECURSIVE CountAwaited(_)
CountAwaited(n) == IF n = 0 THEN 0 ELSE CountAwaited(n - 1) + (IF Awaited(n) THEN 1 ELSE 0)
RECURSIVE CountCalls(_)
CountCalls(n) == IF n = 0 THEN 0 ELSE CountCalls(n - 1) + Len(calls[n])

\* the call a request must have issued, from what the caller gave it
OwnCall(r) ==
    IF kind[r] = "invoke"
    THEN [cmd |-> req[r].cmd, args |-> ExpectedArgs(r), opts |-> ExpectedOpts(r)]
    ELSE [cmd |-> IF hist[r] = <<>> THEN [t |-> "string", s |-> "plugin:event|emit"]
                  ELSE [t |-> "string", s |-> "plugin:event|emit_to"],
          args |-> [t |-> "eargs", event |-> [t |-> "string", s |-> supplied[r].event],
                    payload |-> to_value(supplied[r].payload).val,
                    kind |-> IF hist[r] = <<>> THEN 0 ELSE 4,
                    label |-> IF hist[r] = <<>> THEN [t |-> "undefined"] ELSE req[r].target.s],
          opts |-> [headers |-> [t |-> "undefined"]]]

\* C14: with requests started concurrently the host has received exactly one call
\* per awaited request, each the call of its own request, also when several equal
\* requests are in flight; a completed request's result is the outcome of its own
\* call, whatever the others' state and outcomes are.
C14_RequestsIndependent ==
    /\ CountCalls(MaxReqs) = CountAwaited(MaxReqs)
    /\ \A r \in Reqs :
          /\ Awaited(r) => calls[r] = <<OwnCall(r)>>
          /\ ~Awaited(r) => calls[r] = <<>>
          /\ stage[r] = "done" =>
               result[r] = IF promise[r].state = "resolved"
                           THEN [ok |-> TRUE, val |-> promise[r].v]
                           ELSE IF bare[r] THEN [ok |-> FALSE, err |-> promise[r].v]
                           ELSE [ok |-> FALSE, err |-> [raw |-> promise[r].v]]

\* two equal requests awaited together: both results are held, one Ok and one Err
C14_Witness ==
    /\ stage[1] = "done" /\ result[1] = Ok(JsString("ok"))
    /\ stage[2] = "done" /\ ~result[2].ok
    /\ kind[1] = "invoke" /\ kind[2] = "invoke"
    /\ calls[1] = calls[2] /\ Len(calls[1]) = 1

\* C15: the host call is issued by the conversion into the future, before any
\* poll; dropping the future leaves the host's record of the call as it is, issues
\* no further call, and the caller never gets a result for the request, also when
\* the host settles the promise afterwards.
C15_DropDoesNotUndo ==
    [][\A r \in Reqs :
          kind[r] \in {"invoke", "emit"} =>
              /\ (stage[r] = "built" /\ stage'[r] = "pending") =>
                   /\ calls[r] = <<>> /\ Len(calls'[r]) = 1
                   /\ promise'[r] = [state |-> "pending"] /\ result'[r] = [t |-> "none"]
              /\ (stage[r] = "pending" /\ stage'[r] = "dropped") =>
                   /\ Len(calls[r]) = 1 /\ calls'[r] = calls[r]
                   /\ promise'[r] = promise[r]
                   /\ result'[r] = [t |-> "none"]
              /\ stage[r] = "dropped" =>
                   \/ stage'[r] = "new" /\ req'[r] = [t |-> "none"]
                   \/ /\ stage'[r] = "dropped"
                      /\ calls'[r] = calls[r]
                      /\ result'[r] = [t |-> "none"] /\ rendered'[r] = [t |-> "none"]]_vars

C15_Witness ==
    \E r \in Reqs :
        /\ kind[r] = "invoke" /\ stage[r] = "dropped"
        /\ promise[r].state = "resolved"
        /\ result[r] = None
        /\ Len(calls[r]) = 1 /\ calls[r][1].cmd = JsString("connect")

\* C16: a with_args step sets the args to the value given and leaves the command
\* and the options as they were; a with_options step sets the options and leaves
\* the command and the args; so the call issued carries the command and the last
\* args and options given, whatever the order and the number of the steps.
C16_StepsChangeOwnFieldOnly ==
    [][\A r \in Reqs :
          (kind[r] = "invoke" /\ stage[r] = "built") =>
              /\ (stage'[r] = "built" /\ hist'[r] = Append(hist[r], "with_args")) =>
                   /\ req'[r].cmd = req[r].cmd /\ req'[r].opts = req[r].opts
                   /\ supplied'[r].opts = supplied[r].opts
                   /\ supplied'[r].args # [t |-> "none"]
                   /\ req'[r].args = to_args(supplied'[r].args)
              /\ (stage'[r] = "built" /\ hist'[r] = Append(hist[r], "with_options")) =>
                   /\ req'[r].cmd = req[r].cmd /\ req'[r].args = req[r].args
                   /\ supplied'[r].args = supplied[r].args
                   /\ supplied'[r].opts # [t |-> "none"]
                   /\ req'[r].opts = supplied'[r].opts
              /\ stage'[r] = "pending" =>
                   /\ hist'[r] = hist[r] /\ supplied'[r] = supplied[r]
                   /\ calls'[r] = <<[cmd |-> req[r].cmd,
                                     args |-> IF supplied[r].args = [t |-> "none"]
                                              THEN [t |-> "undefined"] ELSE to_args(supplied[r].args),
                                     opts |-> IF supplied[r].opts = [t |-> "none"]
                                              THEN [headers |-> [t |-> "undefined"]] ELSE supplied[r].opts]>>]_vars

C16_Witness ==
    \E r \in Reqs :
        /\ kind[r] = "invoke" /\ stage[r] = "pending"
        /\ hist[r] = <<"with_args", "with_options">>
        /\ calls[r] = <<[cmd |-> JsString("login"),
                         args |-> Uint8Array(<<1, 2>>),
                         opts |-> [headers |-> JsObject(<<<<"app-0", JsString("fi")>>, <<"app-1", JsString("hi")>>>>)]]>>

====
